---------------------------- MODULE Spec2Model ----------------------------
(***************************************************************************)
(* A model of the mergeable aggregates of qsv-stats:                       *)
(*   MinMax      (src/src/minmax.rs)   count, minimum, maximum             *)
(*   OnlineStats (src/src/online.rs)   streaming mean / variance / means   *)
(*   Unsorted    (src/src/unsorted.rs) lazily sorted buffer and its        *)
(*                                     order statistics                    *)
(* Each aggregate type has a few named instances ("slots") a caller owns.  *)
(* The actions are the public operations applied to a slot.  For every     *)
(* slot a history variable records, in order, the samples that reached it  *)
(* through add / extend / merge; the histories are read by the properties  *)
(* only, never by the operations.                                          *)
(*                                                                         *)
(* Option<T> is modelled as a sequence of length at most one:              *)
(*   None == << >>,  Some(v) == << v >>.                                   *)
(***************************************************************************)
EXTENDS Integers, Sequences, FiniteSets

VARIABLES
    mm,        \* MinMax slots:       slot -> [len, min, max]
    mmHist,    \* history:            slot -> sequence of samples
    os,        \* OnlineStats slots:  slot -> [size, mean, q, ...]
    osHist,    \* history:            slot -> sequence of samples
    osKind,    \* history:            slot -> how the slot was built
    us,        \* Unsorted slots:     slot -> [data, sorted]
    usHist,    \* history:            slot -> sequence of samples
    usAssumed, \* history:            slot -> the flag was set by already_sorted() on data not in order
    last       \* the last operation performed and the value it returned

vars == <<mm, mmHist, os, osHist, osKind, us, usHist, usAssumed, last>>

mmVars == <<mm, mmHist>>
osVars == <<os, osHist, osKind>>
usVars == <<us, usHist, usAssumed>>

----------------------------------------------------------------------------
(* Bounds of the model.                                                    *)

MaxMMVal == 3        \* MinMax samples are drawn from 1..MaxMMVal
MaxMMSamples == 3    \* samples held by all MinMax slots together
MaxOSVal == 2        \* OnlineStats samples are drawn from -1..MaxOSVal
MaxOSSamples == 3    \* samples held by all OnlineStats slots together
MaxUVal == 2         \* Unsorted samples are drawn from 1..MaxUVal (SpecU)
MaxQVal == 3         \* samples of the queried buffer are drawn from 1..MaxQVal (SpecQ)
MaxULen == 4         \* samples held by all Unsorted slots together (SpecU)
MaxExtend == 2       \* longest iterator handed to extend
MaxFLen == 3         \* samples held by all Unsorted slots together (SpecF)
MaxAVal == 12        \* samples of the wide buffers are drawn from 1..MaxAVal (SpecA)
MaxPLen == 5         \* buffer lengths 2..MaxPLen and within MaxPLen of 10,000 (SpecP)
MaxPThr == 4         \* thresholds 0..MaxPThr and within MaxPThr of 10,000 (SpecP)
MaxRLen == 12        \* the long buffers hold up to MaxRLen samples (SpecR)
MaxRVal == 4         \* samples of the long buffers are drawn from 1..MaxRVal (SpecR)
MaxQLen == 6         \* longest buffer the statistics are queried on (SpecQ)

----------------------------------------------------------------------------
(* Option<T>                                                               *)

None == << >>
Some(v) == << v >>
is_some(o) == o # None
is_none(o) == o = None

\* Option<T>'s derived ordering, as used by `v.min < self.min`:
\* None is below every Some, two Somes compare by their contents.
OptionLt(a, b) ==
    IF is_none(a) THEN is_some(b)
    ELSE IF is_none(b) THEN FALSE
    ELSE a[1] < b[1]

OptionGt(a, b) == OptionLt(b, a)

----------------------------------------------------------------------------
(* MinMax                                                                  *)

MMSlots == {"x", "y", "z"}
MMSamples == 1..MaxMMVal

MinMax_default == [len |-> 0, min |-> None, max |-> None]

MinMax_new == MinMax_default

\* mutant: `else if` instead of a second `if`
MinMax_add_elseif(self, sample) ==
    IF is_none(self.min) \/ sample < self.min[1]
    THEN [len |-> self.len + 1, min |-> Some(sample), max |-> self.max]
    ELSE [len |-> self.len + 1, min |-> self.min,
          max |-> IF is_none(self.max) \/ sample > self.max[1]
                  THEN Some(sample) ELSE self.max]

MinMax_add(self, sample) ==
    [len |-> self.len + 1,
     min |-> IF is_none(self.min) \/ sample < self.min[1]
             THEN Some(sample) ELSE self.min,
     max |-> IF is_none(self.max) \/ sample > self.max[1]
             THEN Some(sample) ELSE self.max]

\* mutant: the `v.min.is_some()` / `v.max.is_some()` tests left out
MinMax_merge_nosome(self, v) ==
    [len |-> self.len + v.len,
     min |-> IF is_none(self.min) \/ OptionLt(v.min, self.min)
             THEN v.min ELSE self.min,
     max |-> IF is_none(self.max) \/ OptionGt(v.max, self.max)
             THEN v.max ELSE self.max]

\* mutant: the maximum is only replaced when self has none
MinMax_merge_keepmax(self, v) ==
    [len |-> self.len + v.len,
     min |-> IF is_none(self.min) \/ (is_some(v.min) /\ OptionLt(v.min, self.min))
             THEN v.min ELSE self.min,
     max |-> IF is_none(self.max) THEN v.max ELSE self.max]

MinMax_merge(self, v) ==
    [len |-> self.len + v.len,
     min |-> IF is_none(self.min) \/ (is_some(v.min) /\ OptionLt(v.min, self.min))
             THEN v.min ELSE self.min,
     max |-> IF is_none(self.max) \/ (is_some(v.max) /\ OptionGt(v.max, self.max))
             THEN v.max ELSE self.max]

RECURSIVE MinMax_extend(_, _)
MinMax_extend(self, it) ==
    IF it = << >> THEN self
    ELSE MinMax_extend(MinMax_add(self, Head(it)), Tail(it))

MinMax_from_iter(it) == MinMax_extend(MinMax_new, it)

MinMax_min(self) == self.min
MinMax_max(self) == self.max
MinMax_len(self) == self.len
MinMax_is_empty(self) == self.len = 0

RECURSIVE SumLen(_, _)
SumLen(h, S) ==
    IF S = {} THEN 0
    ELSE LET i == CHOOSE k \in S : TRUE IN Len(h[i]) + SumLen(h, S \ {i})

\* the iterators handed to extend: the sequences over S of at most n samples
RECURSIVE SeqsUpTo(_, _)
SeqsUpTo(S, n) ==
    IF n = 0 THEN {<< >>}
    ELSE LET shorter == SeqsUpTo(S, n - 1)
         IN  shorter \cup {Append(t, x) : t \in {u \in shorter : Len(u) = n - 1}, x \in S}

\* the iterators handed to MinMax::extend
MMIters == SeqsUpTo(MMSamples, MaxExtend)

MMAdd(i, sample) ==
    /\ SumLen(mmHist, MMSlots) < MaxMMSamples
    /\ mm' = [mm EXCEPT ![i] = MinMax_add(@, sample)]
    /\ mmHist' = [mmHist EXCEPT ![i] = Append(@, sample)]
    /\ last' = [op |-> "MinMax.add", slot |-> i]
    /\ UNCHANGED <<osVars, usVars>>

\* self.merge(v) consumes v: the caller's slot j is left holding a new aggregate.
MMMerge(i, j) ==
    /\ i # j
    /\ mm' = [mm EXCEPT ![i] = MinMax_merge(mm[i], mm[j]), ![j] = MinMax_new]
    /\ mmHist' = [mmHist EXCEPT ![i] = mmHist[i] \o mmHist[j], ![j] = << >>]
    /\ last' = [op |-> "MinMax.merge", slot |-> i,
                a |-> mmHist[i], b |-> mmHist[j]]
    /\ UNCHANGED <<osVars, usVars>>

\* self.extend(it): every sample of the iterator is added, in order
MMExtend(i, it) ==
    /\ SumLen(mmHist, MMSlots) + Len(it) <= MaxMMSamples
    /\ mm' = [mm EXCEPT ![i] = MinMax_extend(@, it)]
    /\ mmHist' = [mmHist EXCEPT ![i] = @ \o it]
    /\ last' = [op |-> "MinMax.extend", slot |-> i]
    /\ UNCHANGED <<osVars, usVars>>

NextMM ==
    \/ \E i \in MMSlots, sample \in MMSamples : MMAdd(i, sample)
    \/ LET room == MaxMMSamples - SumLen(mmHist, MMSlots)
       IN  \E i \in MMSlots, it \in {t \in MMIters : Len(t) <= room} : MMExtend(i, it)
    \/ \E i \in MMSlots, j \in MMSlots : MMMerge(i, j)

----------------------------------------------------------------------------
(* f64 in exact arithmetic.                                                *)
(* A value is a pair <<n, d>>: the rational n/d in lowest terms with d > 0,*)
(* or, with d = 0, one of IEEE-754's special values: <<0, 0>> is NaN,      *)
(* <<1, 0>> is +infinity, <<-1, 0>> is -infinity.  Rounding is left out;   *)
(* the special values follow the IEEE rules (0/0, inf - inf, 0 * inf are   *)
(* NaN, x/0 is an infinity, NaN propagates).  Zeros are +0.0: no operation *)
(* of OnlineStats on these samples produces -0.0 as a divisor.             *)

Abs(n) == IF n < 0 THEN -n ELSE n
Sign(n) == IF n < 0 THEN -1 ELSE IF n > 0 THEN 1 ELSE 0

RECURSIVE GCD(_, _)
GCD(a, b) == IF b = 0 THEN a ELSE GCD(b, a % b)

NaN == <<0, 0>>
Fin(n) == <<n, 1>>          \* an integer converted by to_f64 / `as f64`

Norm(n, d) ==
    IF d = 0 THEN <<Sign(n), 0>>
    ELSE LET g == GCD(Abs(n), Abs(d))
         IN  <<Sign(d) * (n \div g), Abs(d) \div g>>

is_nan(a) == a = NaN
is_infinite(a) == a[2] = 0 /\ a[1] # 0

FNeg(a) == <<-a[1], a[2]>>

FAdd(a, b) ==
    IF is_nan(a) \/ is_nan(b) THEN NaN
    ELSE IF is_infinite(a) /\ is_infinite(b) THEN (IF a = b THEN a ELSE NaN)
    ELSE IF is_infinite(a) THEN a
    ELSE IF is_infinite(b) THEN b
    ELSE Norm(a[1] * b[2] + b[1] * a[2], a[2] * b[2])

FSub(a, b) == FAdd(a, FNeg(b))

FMul(a, b) ==
    IF is_nan(a) \/ is_nan(b) THEN NaN
    ELSE IF is_infinite(a) \/ is_infinite(b)
         THEN <<Sign(a[1]) * Sign(b[1]), 0>>      \* 0 * inf is NaN
    ELSE Norm(a[1] * b[1], a[2] * b[2])

FDiv(a, b) ==
    IF is_nan(a) \/ is_nan(b) THEN NaN
    ELSE IF is_infinite(a)
         THEN (IF is_infinite(b) THEN NaN
               ELSE <<a[1] * (IF b[1] < 0 THEN -1 ELSE 1), 0>>)
    ELSE IF is_infinite(b) THEN Fin(0)
    ELSE IF b[1] = 0 THEN <<Sign(a[1]), 0>>       \* 0/0 is NaN, x/0 an infinity
    ELSE Norm(a[1] * b[2], a[2] * b[1])

\* f64::mul_add(a, b, c): a * b + c with one rounding; exact here
mul_add(a, b, c) == FAdd(FMul(a, b), c)

FEq(a, b) == ~is_nan(a) /\ ~is_nan(b) /\ a = b                \* a == b
FLt(a, b) ==                                                  \* a < b
    /\ ~is_nan(a) /\ ~is_nan(b) /\ a # b
    /\ IF is_infinite(a) THEN a[1] < 0
       ELSE IF is_infinite(b) THEN b[1] > 0
       ELSE a[1] * b[2] < b[1] * a[2]

(* The natural logarithm.  geometric_sum is a sum of ln(sample) over the     *)
(* positive samples; ln is not a rational function, so the model keeps the   *)
(* sum by its antilogarithm: LogOf(p) stands for ln(p), p a positive         *)
(* rational, ln(a) + ln(b) = ln(a * b), and 0.0 = ln(1).  ln(p) is infinite   *)
(* for p = 0 and p = +infinity and NaN for p < 0 or p NaN.                   *)
LogOf(p) == [ln |-> p]
LogZero == LogOf(Fin(1))
LogAdd(a, b) == LogOf(FMul(a.ln, b.ln))
log_is_infinite(sum) == sum.ln = Fin(0) \/ is_infinite(sum.ln)
log_is_nan(sum) == is_nan(sum.ln) \/ sum.ln[1] < 0
\* (sum / n).exp(): exp(ln(p) / n), the n-th root of p
ExpDiv(sum, n) == IF sum.ln = Fin(1) THEN Fin(1) ELSE [root |-> n, of |-> sum.ln]

----------------------------------------------------------------------------
(* OnlineStats                                                             *)

OSSlots == {"x", "y"}
OSSamples == (0 - 1)..MaxOSVal

OnlineStats_default ==
    [size |-> 0, mean |-> Fin(0), q |-> Fin(0), harmonic_sum |-> Fin(0),
     geometric_sum |-> LogZero, has_zero |-> FALSE, has_negative |-> FALSE]

OnlineStats_new == OnlineStats_default

OnlineStats_len(self) == self.size
OnlineStats_is_empty(self) == self.size = 0

OnlineStats_mean(self) ==
    IF OnlineStats_is_empty(self) THEN NaN ELSE self.mean

OnlineStats_variance(self) == FDiv(self.q, Fin(self.size))

OnlineStats_harmonic_mean(self) ==
    IF OnlineStats_is_empty(self) \/ self.has_zero \/ self.has_negative
    THEN NaN
    ELSE FDiv(Fin(self.size), self.harmonic_sum)

OnlineStats_geometric_mean(self) ==
    IF OnlineStats_is_empty(self) THEN NaN
    ELSE IF self.has_zero THEN Fin(0)
    ELSE IF \/ self.has_negative
            \/ log_is_infinite(self.geometric_sum)
            \/ log_is_nan(self.geometric_sum)
         THEN NaN
    ELSE ExpDiv(self.geometric_sum, self.size)

\* mutant: the second deviation is taken from the old mean
OnlineStats_add_oldmean(self, sample) ==
    LET x == Fin(sample)
        oldmean == self.mean
        size == self.size + 1
        delta == FSub(x, oldmean)
        mean == FAdd(self.mean, FDiv(delta, Fin(size)))
        delta2 == FSub(x, oldmean)
    IN  [size |-> size,
         mean |-> mean,
         q |-> FAdd(self.q, FMul(delta, delta2)),
         harmonic_sum |-> IF ~FEq(x, Fin(0))
                          THEN FAdd(self.harmonic_sum, FDiv(Fin(1), x))
                          ELSE self.harmonic_sum,
         geometric_sum |-> IF ~FEq(x, Fin(0)) /\ ~FLt(x, Fin(0)) /\ FLt(Fin(0), x)
                           THEN LogAdd(self.geometric_sum, LogOf(x))
                           ELSE self.geometric_sum,
         has_zero |-> self.has_zero \/ FEq(x, Fin(0)),
         has_negative |-> self.has_negative \/ (~FEq(x, Fin(0)) /\ FLt(x, Fin(0)))]

\* `sample` is the integer handed to add; to_f64 converts it
OnlineStats_add(self, sample) ==
    LET x == Fin(sample)
        oldmean == self.mean
        size == self.size + 1
        delta == FSub(x, oldmean)
        mean == FAdd(self.mean, FDiv(delta, Fin(size)))
        delta2 == FSub(x, mean)
    IN  [size |-> size,
         mean |-> mean,
         q |-> FAdd(self.q, FMul(delta, delta2)),
         harmonic_sum |-> IF ~FEq(x, Fin(0))
                          THEN FAdd(self.harmonic_sum, FDiv(Fin(1), x))
                          ELSE self.harmonic_sum,
         geometric_sum |-> IF ~FEq(x, Fin(0)) /\ ~FLt(x, Fin(0)) /\ FLt(Fin(0), x)
                           THEN LogAdd(self.geometric_sum, LogOf(x))
                           ELSE self.geometric_sum,
         has_zero |-> self.has_zero \/ FEq(x, Fin(0)),
         has_negative |-> self.has_negative \/ (~FEq(x, Fin(0)) /\ FLt(x, Fin(0)))]

OnlineStats_add_null(self) == OnlineStats_add(self, 0)

OnlineStats_merge(self, v) ==
    LET s1 == Fin(self.size)
        s2 == Fin(v.size)
        meandiffsq == FMul(FSub(self.mean, v.mean), FSub(self.mean, v.mean))
    IN  [size |-> self.size + v.size,
         mean |-> FDiv(mul_add(s1, self.mean, FMul(s2, v.mean)), FAdd(s1, s2)),
         q |-> FAdd(self.q,
                    FAdd(v.q, mul_add(meandiffsq,
                                      FDiv(FMul(s1, s2), FAdd(s1, s2)),
                                      Fin(0)))),
         harmonic_sum |-> FAdd(self.harmonic_sum, v.harmonic_sum),
         geometric_sum |-> LogAdd(self.geometric_sum, v.geometric_sum),
         has_zero |-> self.has_zero,
         has_negative |-> self.has_negative \/ v.has_negative]

RECURSIVE OnlineStats_extend(_, _)
OnlineStats_extend(self, it) ==
    IF it = << >> THEN self
    ELSE OnlineStats_extend(OnlineStats_add(self, Head(it)), Tail(it))

OnlineStats_from_iter(it) == OnlineStats_extend(OnlineStats_new, it)

\* osKind: "add" for a slot built by add / add_null alone (a partition's
\* aggregate), "merge" for the result of merging such aggregates into it, left
\* to right, and nothing else since; "mixed" otherwise.
OSAdd(i, sample) ==
    /\ SumLen(osHist, OSSlots) < MaxOSSamples
    /\ os' = [os EXCEPT ![i] = OnlineStats_add(@, sample)]
    /\ osHist' = [osHist EXCEPT ![i] = Append(@, sample)]
    /\ osKind' = [osKind EXCEPT ![i] = IF @ = "add" THEN "add" ELSE "mixed"]
    /\ last' = [op |-> "OnlineStats.add", slot |-> i]
    /\ UNCHANGED <<mmVars, usVars>>

OSAddNull(i) ==
    /\ SumLen(osHist, OSSlots) < MaxOSSamples
    /\ os' = [os EXCEPT ![i] = OnlineStats_add_null(@)]
    /\ osHist' = [osHist EXCEPT ![i] = Append(@, 0)]
    /\ osKind' = [osKind EXCEPT ![i] = IF @ = "add" THEN "add" ELSE "mixed"]
    /\ last' = [op |-> "OnlineStats.add_null", slot |-> i]
    /\ UNCHANGED <<mmVars, usVars>>

\* OnlineStats is Copy: self.merge(v) leaves the caller's v as it was.
OSMerge(i, j) ==
    /\ i # j
    /\ SumLen(osHist, OSSlots) + Len(osHist[j]) <= MaxOSSamples
    /\ os' = [os EXCEPT ![i] = OnlineStats_merge(os[i], os[j])]
    /\ osHist' = [osHist EXCEPT ![i] = osHist[i] \o osHist[j]]
    /\ osKind' = [osKind EXCEPT ![i] =
                    IF @ \in {"add", "merge"} /\ osKind[j] = "add"
                    THEN "merge" ELSE "mixed"]
    /\ last' = [op |-> "OnlineStats.merge", slot |-> i]
    /\ UNCHANGED <<mmVars, usVars>>

\* the iterators handed to OnlineStats::extend
OSIters == SeqsUpTo(OSSamples, MaxExtend)

\* self.extend(it): every sample of the iterator is added, in order
OSExtend(i, it) ==
    /\ SumLen(osHist, OSSlots) + Len(it) <= MaxOSSamples
    /\ os' = [os EXCEPT ![i] = OnlineStats_extend(@, it)]
    /\ osHist' = [osHist EXCEPT ![i] = @ \o it]
    /\ osKind' = [osKind EXCEPT ![i] = IF @ = "add" THEN "add" ELSE "mixed"]
    /\ last' = [op |-> "OnlineStats.extend", slot |-> i]
    /\ UNCHANGED <<mmVars, usVars>>

NextOS ==
    \/ \E i \in OSSlots, sample \in OSSamples : OSAdd(i, sample)
    \/ LET room == MaxOSSamples - SumLen(osHist, OSSlots)
       IN  \E i \in OSSlots, it \in {t \in OSIters : Len(t) <= room} : OSExtend(i, it)
    \/ \E i \in OSSlots : OSAddNull(i)
    \/ \E i \in OSSlots, j \in OSSlots : OSMerge(i, j)

----------------------------------------------------------------------------
(* Unsorted: the statistics on sorted data                                 *)
(* Samples are integers (a totally ordered T); Partial<T> then orders them *)
(* as the integers are.  to_f64 is Fin.  data.get(k) is 0-based.           *)

Get(data, k) == data[k + 1]
ToF64(data, k) == Fin(Get(data, k))
Max(a, b) == IF a > b THEN a ELSE b
Min(a, b) == IF a < b THEN a ELSE b

\* mutant: an even length takes the upper of the two middle elements
median_on_sorted_upper(data) ==
    LET len == Len(data) IN
    IF len = 0 THEN None
    ELSE Some(ToF64(data, len \div 2))

median_on_sorted(data) ==
    LET len == Len(data) IN
    IF len = 0 THEN None
    ELSE IF len = 1 THEN Some(ToF64(data, 0))
    ELSE IF len % 2 = 0
         THEN LET idx == len \div 2
                  v1 == ToF64(data, idx - 1)
                  v2 == ToF64(data, idx)
              IN  Some(FDiv(FAdd(v1, v2), Fin(2)))
    ELSE Some(ToF64(data, len \div 2))

Avg(a, b) == FDiv(FAdd(a, b), Fin(2))

\* mutant: q3 of a length 4k+1 starts one position early
quartiles_on_sorted_early(data) ==
    LET len == Len(data) IN
    IF len <= 2 THEN None
    ELSE IF len = 3
         THEN Some(<<ToF64(data, 0), ToF64(data, 1), ToF64(data, len - 1)>>)
    ELSE LET r == len % 4
             k == (len - r) \div 4
         IN  IF r = 0
             THEN Some(<<Avg(ToF64(data, k - 1), ToF64(data, k)),
                         Avg(ToF64(data, 2 * k - 1), ToF64(data, 2 * k)),
                         Avg(ToF64(data, 3 * k - 1), ToF64(data, 3 * k))>>)
             ELSE IF r = 1
             THEN Some(<<Avg(ToF64(data, k - 1), ToF64(data, k)),
                         ToF64(data, 2 * k),
                         Avg(ToF64(data, 3 * k - 1), ToF64(data, 3 * k))>>)
             ELSE IF r = 2
             THEN Some(<<ToF64(data, k),
                         Avg(ToF64(data, 2 * k), ToF64(data, 2 * k + 1)),
                         ToF64(data, 3 * k + 1)>>)
             ELSE Some(<<ToF64(data, k), ToF64(data, 2 * k + 1), ToF64(data, 3 * k + 2)>>)

quartiles_on_sorted(data) ==
    LET len == Len(data) IN
    IF len <= 2 THEN None
    ELSE IF len = 3
         THEN Some(<<ToF64(data, 0), ToF64(data, 1), ToF64(data, len - 1)>>)
    ELSE LET r == len % 4
             k == (len - r) \div 4
         IN  IF r = 0
             THEN Some(<<Avg(ToF64(data, k - 1), ToF64(data, k)),
                         Avg(ToF64(data, 2 * k - 1), ToF64(data, 2 * k)),
                         Avg(ToF64(data, 3 * k - 1), ToF64(data, 3 * k))>>)
             ELSE IF r = 1
             THEN Some(<<Avg(ToF64(data, k - 1), ToF64(data, k)),
                         ToF64(data, 2 * k),
                         Avg(ToF64(data, 3 * k), ToF64(data, 3 * k + 1))>>)
             ELSE IF r = 2
             THEN Some(<<ToF64(data, k),
                         Avg(ToF64(data, 2 * k), ToF64(data, 2 * k + 1)),
                         ToF64(data, 3 * k + 1)>>)
             ELSE Some(<<ToF64(data, k), ToF64(data, 2 * k + 1), ToF64(data, 3 * k + 2)>>)

\* one iteration of mode_on_sorted's loop
mode_step(st, x) ==
    LET a == IF st.mode = Some(x)
             THEN [st EXCEPT !.mode_count = @ + 1]
             ELSE IF st.next = Some(x)
             THEN [st EXCEPT !.next_count = @ + 1]
             ELSE [st EXCEPT !.next = Some(x), !.next_count = 0]
    IN  IF a.next_count > a.mode_count
        THEN [mode |-> a.next, mode_count |-> a.next_count,
              next |-> None, next_count |-> 0]
        ELSE IF a.next_count = a.mode_count
        THEN [a EXCEPT !.mode = None, !.mode_count = 0]
        ELSE a

RECURSIVE mode_loop(_, _)
mode_loop(st, it) ==
    IF it = << >> THEN st ELSE mode_loop(mode_step(st, Head(it)), Tail(it))

mode_on_sorted(it) ==
    mode_loop([mode |-> None, next |-> None, mode_count |-> 0, next_count |-> 0],
              it).mode

\* one iteration of modes_on_sorted's loop; modes is the Vec<(T, u32)>,
\* modes[count] (0-based) its last entry
modes_step(st, x) ==
    IF x = Get(st.modes, st.count)[1]
    THEN LET cnt == Get(st.modes, st.count)[2] + 1
         IN  [st EXCEPT !.modes[st.count + 1] = <<x, cnt>>,
                        !.highest_mode = IF @ < cnt THEN cnt ELSE @]
    ELSE [st EXCEPT !.modes = Append(@, <<x, 1>>), !.count = @ + 1]

RECURSIVE modes_loop(_, _)
modes_loop(st, it) ==
    IF it = << >> THEN st ELSE modes_loop(modes_step(st, Head(it)), Tail(it))

RECURSIVE FilterCnt(_, _)
FilterCnt(pairs, c) ==
    IF pairs = << >> THEN << >>
    ELSE IF Head(pairs)[2] = c
         THEN <<Head(pairs)[1]>> \o FilterCnt(Tail(pairs), c)
         ELSE FilterCnt(Tail(pairs), c)

\* mutant: the values are kept also when none repeats
modes_on_sorted_nogate(it, size) ==
    IF it = << >> THEN <<<< >>, 0, 0>>
    ELSE LET st == modes_loop([modes |-> <<<<Head(it), 1>>>>, highest_mode |-> 0,
                               count |-> 0], Tail(it))
             modes_result == FilterCnt(st.modes, Max(st.highest_mode, 1))
         IN  <<modes_result, Len(modes_result), st.highest_mode>>

\* returns (modes_result, modes_count, highest_mode)
modes_on_sorted(it, size) ==
    IF it = << >> THEN <<<< >>, 0, 0>>
    ELSE LET st == modes_loop([modes |-> <<<<Head(it), 1>>>>, highest_mode |-> 0,
                               count |-> 0], Tail(it))
             modes_result == IF st.highest_mode > 1
                             THEN FilterCnt(st.modes, st.highest_mode)
                             ELSE << >>
         IN  <<modes_result, Len(modes_result), st.highest_mode>>

\* lowest_mode: u32.  u32::MAX (4294967295) is beyond the integers the model
\* checker holds, so lowest_mode is kept as << >> while it is u32::MAX and as
\* <<c>> once it is a count c; no run the model reaches is u32::MAX long.
U32_MAX == << >>
U32(c) == <<c>>
\* lowest_mode > c, for a count c
U32Gt(lowest_mode, c) == lowest_mode = U32_MAX \/ lowest_mode[1] > c

\* one iteration of antimodes_on_sorted's loop; values and antimodes are the
\* two Vecs, zipped here into pairs <<value, occurrences>>
antimodes_step(st, x) ==
    IF Get(st.pairs, st.count)[1] = x
    THEN [st EXCEPT !.pairs[st.count + 1] = <<x, @[2] + 1>>]
    ELSE LET curr_antimode == Get(st.pairs, st.count)[2]
         IN  [pairs |-> Append(st.pairs, <<x, 1>>),
              lowest_mode |-> IF U32Gt(st.lowest_mode, curr_antimode)
                              THEN U32(curr_antimode) ELSE st.lowest_mode,
              count |-> st.count + 1]

RECURSIVE antimodes_loop(_, _)
antimodes_loop(st, it) ==
    IF it = << >> THEN st
    ELSE antimodes_loop(antimodes_step(st, Head(it)), Tail(it))

ANTIMODES_KEPT == 10

Take(s, n) == SubSeq(s, 1, Min(n, Len(s)))

\* mutant: the occurrences of the last run are not compared after the loop
antimodes_on_sorted_nolast(it, size) ==
    IF it = << >> THEN <<<< >>, 0, 0>>
    ELSE LET st == antimodes_loop([pairs |-> <<<<Head(it), 1>>>>,
                                   lowest_mode |-> U32_MAX, count |-> 0], Tail(it))
             lowest_mode == st.lowest_mode
         IN  IF lowest_mode = U32_MAX
             THEN <<<< >>, 0, 0>>
             ELSE LET qualifying == FilterCnt(st.pairs, lowest_mode[1])
                  IN  <<Take(qualifying, ANTIMODES_KEPT), Len(qualifying), lowest_mode[1]>>

\* mutant: the count is taken after the truncation
antimodes_on_sorted_cutcount(it, size) ==
    IF it = << >> THEN <<<< >>, 0, 0>>
    ELSE LET st == antimodes_loop([pairs |-> <<<<Head(it), 1>>>>,
                                   lowest_mode |-> U32_MAX, count |-> 0], Tail(it))
             lowest_mode ==
                 IF st.count > 0 /\ U32Gt(st.lowest_mode, Get(st.pairs, st.count)[2])
                 THEN U32(Get(st.pairs, st.count)[2]) ELSE st.lowest_mode
         IN  IF lowest_mode = U32_MAX
             THEN <<<< >>, 0, 0>>
             ELSE LET qualifying == Take(FilterCnt(st.pairs, lowest_mode[1]), ANTIMODES_KEPT)
                  IN  <<qualifying, Len(qualifying), lowest_mode[1]>>

\* mutant: the last run is compared also when it is the only run
antimodes_on_sorted_onlyrun(it, size) ==
    IF it = << >> THEN <<<< >>, 0, 0>>
    ELSE LET st == antimodes_loop([pairs |-> <<<<Head(it), 1>>>>,
                                   lowest_mode |-> U32_MAX, count |-> 0], Tail(it))
             lowest_mode ==
                 IF U32Gt(st.lowest_mode, Get(st.pairs, st.count)[2])
                 THEN U32(Get(st.pairs, st.count)[2]) ELSE st.lowest_mode
         IN  IF lowest_mode = U32_MAX
             THEN <<<< >>, 0, 0>>
             ELSE LET qualifying == FilterCnt(st.pairs, lowest_mode[1])
                  IN  <<Take(qualifying, ANTIMODES_KEPT), Len(qualifying), lowest_mode[1]>>

\* returns (antimodes_result, antimodes_count, lowest_mode)
antimodes_on_sorted(it, size) ==
    IF it = << >> THEN <<<< >>, 0, 0>>
    ELSE LET st == antimodes_loop([pairs |-> <<<<Head(it), 1>>>>,
                                   lowest_mode |-> U32_MAX, count |-> 0], Tail(it))
             lowest_mode ==
                 IF st.count > 0 /\ U32Gt(st.lowest_mode, Get(st.pairs, st.count)[2])
                 THEN U32(Get(st.pairs, st.count)[2]) ELSE st.lowest_mode
         IN  IF lowest_mode = U32_MAX
             THEN <<<< >>, 0, 0>>
             ELSE LET qualifying == FilterCnt(st.pairs, lowest_mode[1])
                  IN  <<Take(qualifying, ANTIMODES_KEPT), Len(qualifying), lowest_mode[1]>>

----------------------------------------------------------------------------
(* Unsorted                                                                *)

USlots == {"a", "b"}
USamples == 1..MaxUVal

Unsorted_default == [data |-> << >>, sorted |-> TRUE]

Unsorted_new == Unsorted_default

\* mutant: the sorted flag is left as it was
Unsorted_add_keepflag(self, v) == [data |-> Append(self.data, v), sorted |-> self.sorted]

Unsorted_add(self, v) == [data |-> Append(self.data, v), sorted |-> FALSE]

Unsorted_len(self) == Len(self.data)
Unsorted_is_empty(self) == self.data = << >>

RECURSIVE SortedInsert(_, _)
SortedInsert(s, x) ==
    IF s = << >> THEN <<x>>
    ELSE IF x <= Head(s) THEN <<x>> \o s
    ELSE <<Head(s)>> \o SortedInsert(Tail(s), x)

\* the slice in ascending order (equal samples are indistinguishable, so the
\* instability of the sort shows nowhere)
RECURSIVE par_sort_unstable(_)
par_sort_unstable(data) ==
    IF data = << >> THEN << >>
    ELSE SortedInsert(par_sort_unstable(Tail(data)), Head(data))

Unsorted_sort(self) ==
    IF ~self.sorted
    THEN [data |-> par_sort_unstable(self.data), sorted |-> TRUE]
    ELSE self

Unsorted_already_sorted(self) == [self EXCEPT !.sorted = TRUE]

DEFAULT_PARALLEL_THRESHOLD == 10000

\* mutant: the window count without the first run
cardinality_parallel_windows(data) ==
    Cardinality({k \in 1..(Len(data) - 1) : data[k] # data[k + 1]})

\* data.par_windows(2).map(|w| u64::from(w[0] != w[1])).sum() + 1
cardinality_parallel(data) ==
    Cardinality({k \in 1..(Len(data) - 1) : data[k] # data[k + 1]}) + 1

\* data.iter().fold((0, None), ...).0
RECURSIVE cardinality_fold(_, _)
cardinality_fold(acc, it) ==
    IF it = << >> THEN acc
    ELSE cardinality_fold(IF Some(Head(it)) # acc[2]
                          THEN <<acc[1] + 1, Some(Head(it))>>
                          ELSE acc,
                          Tail(it))

cardinality_sequential(data) == cardinality_fold(<<0, None>>, data)[1]

\* let use_parallel = ...: the pass cardinality takes on a buffer of len
\* samples (len >= 2)
use_parallel(len, parallel_threshold) ==
    /\ parallel_threshold # 0
    /\ \/ parallel_threshold = 1
       \/ len > Max(parallel_threshold, DEFAULT_PARALLEL_THRESHOLD)

\* Every query takes &mut self: it returns [self |-> the aggregate after the
\* call, ret |-> the value returned].
Unsorted_cardinality(self, sorted, parallel_threshold) ==
    LET len == Len(self.data) IN
    IF len = 0 THEN [self |-> self, ret |-> 0]
    ELSE IF len = 1 THEN [self |-> self, ret |-> 1]
    ELSE LET s == IF sorted THEN Unsorted_already_sorted(self) ELSE Unsorted_sort(self)
         IN  [self |-> s,
              ret |-> IF use_parallel(len, parallel_threshold)
                      THEN cardinality_parallel(s.data)
                      ELSE cardinality_sequential(s.data)]

Unsorted_mode(self) ==
    IF Unsorted_is_empty(self) THEN [self |-> self, ret |-> None]
    ELSE LET s == Unsorted_sort(self)
         IN  [self |-> s, ret |-> mode_on_sorted(s.data)]

Unsorted_modes(self) ==
    IF Unsorted_is_empty(self) THEN [self |-> self, ret |-> <<<< >>, 0, 0>>]
    ELSE LET s == Unsorted_sort(self)
         IN  [self |-> s, ret |-> modes_on_sorted(s.data, Unsorted_len(s))]

Unsorted_antimodes(self) ==
    IF Unsorted_is_empty(self) THEN [self |-> self, ret |-> <<<< >>, 0, 0>>]
    ELSE LET s == Unsorted_sort(self)
         IN  [self |-> s, ret |-> antimodes_on_sorted(s.data, Unsorted_len(s))]

Unsorted_median(self) ==
    IF Unsorted_is_empty(self) THEN [self |-> self, ret |-> None]
    ELSE LET s == Unsorted_sort(self)
         IN  [self |-> s, ret |-> median_on_sorted(s.data)]

Unsorted_quartiles(self) ==
    IF Unsorted_is_empty(self) THEN [self |-> self, ret |-> None]
    ELSE LET s == Unsorted_sort(self)
         IN  [self |-> s, ret |-> quartiles_on_sorted(s.data)]

\* f64::abs
FAbs(a) == <<Abs(a[1]), a[2]>>

\* median_on_sorted at T = f64 (to_f64 is the identity)
median_on_sorted_f64(data) ==
    LET len == Len(data) IN
    IF len = 0 THEN None
    ELSE IF len = 1 THEN Some(Get(data, 0))
    ELSE IF len % 2 = 0
         THEN LET idx == len \div 2
                  v1 == Get(data, idx - 1)
                  v2 == Get(data, idx)
              IN  Some(FDiv(FAdd(v1, v2), Fin(2)))
    ELSE Some(Get(data, len \div 2))

\* a call that panics returns no value: Panic stands for the unwinding thread
Panic == <<<<"panic">>>>

\* f64::partial_cmp: none when an operand is NaN, else -1 (Less), 0 (Equal)
\* or 1 (Greater)
partial_cmp(a, b) ==
    IF is_nan(a) \/ is_nan(b) THEN None
    ELSE IF FLt(a, b) THEN Some(0 - 1)
    ELSE IF FLt(b, a) THEN Some(1)
    ELSE Some(0)

\* the comparator |a, b| a.partial_cmp(b).unwrap(): Option::unwrap panics on
\* none
RECURSIVE SortedInsertF64(_, _)
SortedInsertF64(s, x) ==
    IF s = Panic THEN Panic
    ELSE IF s = << >> THEN <<x>>
    ELSE LET c == partial_cmp(Head(s), x) IN
         IF is_none(c) THEN Panic
         ELSE IF c[1] >= 0 THEN <<x>> \o s
         ELSE LET rest == SortedInsertF64(Tail(s), x)
              IN  IF rest = Panic THEN Panic ELSE <<Head(s)>> \o rest

\* abs_diff_vec.par_sort_unstable_by(|a, b| a.partial_cmp(b).unwrap()): the
\* sorted vector, or Panic when the comparator meets a NaN (a vector of one
\* element is never compared)
RECURSIVE par_sort_unstable_by(_)
par_sort_unstable_by(v) ==
    IF v = << >> THEN << >>
    ELSE SortedInsertF64(par_sort_unstable_by(Tail(v)), Head(v))

\* mutant: the deviations keep their sign
mad_on_sorted_signed(data, precalc_median) ==
    IF data = << >> THEN None
    ELSE LET median_obs == IF is_some(precalc_median) THEN precalc_median[1]
                           ELSE median_on_sorted(data)[1]
             abs_diff_vec == [k \in 1..Len(data) |-> FSub(median_obs, Fin(data[k]))]
             sorted == par_sort_unstable_by(abs_diff_vec)
         IN  IF sorted = Panic THEN Panic ELSE median_on_sorted_f64(sorted)

\* the median of the sorted deviations, or Panic when sorting them panics
mad_on_sorted(data, precalc_median) ==
    IF data = << >> THEN None
    ELSE LET median_obs == IF is_some(precalc_median) THEN precalc_median[1]
                           ELSE median_on_sorted(data)[1]
             abs_diff_vec == [k \in 1..Len(data) |->
                                 FAbs(FSub(median_obs, Fin(data[k])))]
             sorted == par_sort_unstable_by(abs_diff_vec)
         IN  IF sorted = Panic THEN Panic ELSE median_on_sorted_f64(sorted)

Unsorted_mad(self, existing_median) ==
    IF Unsorted_is_empty(self) THEN [self |-> self, ret |-> None]
    ELSE LET s == IF is_none(existing_median) THEN Unsorted_sort(self) ELSE self
         IN  [self |-> s, ret |-> mad_on_sorted(s.data, existing_median)]

\* mutant: the sorted flag is left as it was
Unsorted_merge_keepflag(self, v) ==
    [data |-> self.data \o v.data, sorted |-> self.sorted]

Unsorted_merge(self, v) ==
    [data |-> self.data \o v.data, sorted |-> FALSE]

\* mutant: an iterator without samples leaves the sorted flag as it was
Unsorted_extend_lazyflag(self, it) ==
    [data |-> self.data \o it, sorted |-> IF it = << >> THEN self.sorted ELSE FALSE]

Unsorted_extend(self, it) ==
    [data |-> self.data \o it, sorted |-> FALSE]

Unsorted_from_iter(it) == Unsorted_extend(Unsorted_new, it)

IsSorted(data) == \A k \in 1..(Len(data) - 1) : data[k] <= data[k + 1]

UAdd(i, v) ==
    /\ SumLen(usHist, USlots) < MaxULen
    /\ us' = [us EXCEPT ![i] = Unsorted_add(@, v)]
    /\ usHist' = [usHist EXCEPT ![i] = Append(@, v)]
    /\ usAssumed' = [usAssumed EXCEPT ![i] = FALSE]
    /\ last' = [op |-> "Unsorted.add", slot |-> i]
    /\ UNCHANGED <<mmVars, osVars>>

\* the iterators handed to Unsorted::extend
UIters == SeqsUpTo(USamples, MaxExtend)

UExtend(i, it) ==
    /\ SumLen(usHist, USlots) + Len(it) <= MaxULen
    /\ us' = [us EXCEPT ![i] = Unsorted_extend(@, it)]
    /\ usHist' = [usHist EXCEPT ![i] = @ \o it]
    /\ usAssumed' = [usAssumed EXCEPT ![i] = FALSE]
    /\ last' = [op |-> "Unsorted.extend", slot |-> i]
    /\ UNCHANGED <<mmVars, osVars>>

\* self.merge(v) consumes v: the caller's slot j is left holding a new aggregate.
UMerge(i, j) ==
    /\ i # j
    /\ us' = [us EXCEPT ![i] = Unsorted_merge(us[i], us[j]), ![j] = Unsorted_new]
    /\ usHist' = [usHist EXCEPT ![i] = usHist[i] \o usHist[j], ![j] = << >>]
    /\ usAssumed' = [usAssumed EXCEPT ![i] = FALSE, ![j] = FALSE]
    /\ last' = [op |-> "Unsorted.merge", slot |-> i, a |-> us[i], b |-> us[j]]
    /\ UNCHANGED <<mmVars, osVars>>

\* the effect of a query that returned r on slot i
UQuery(i, name, r) ==
    /\ us' = [us EXCEPT ![i] = r.self]
    /\ usAssumed' = [usAssumed EXCEPT ![i] = IF us[i].sorted THEN @ ELSE FALSE]
    /\ last' = [op |-> name, slot |-> i, ret |-> r.ret]
    /\ UNCHANGED <<usHist, mmVars, osVars>>

UCardinality(i, sorted, parallel_threshold) ==
    LET r == Unsorted_cardinality(us[i], sorted, parallel_threshold) IN
    /\ us' = [us EXCEPT ![i] = r.self]
    /\ usAssumed' = [usAssumed EXCEPT ![i] =
                        IF us[i].sorted \/ Len(us[i].data) < 2 THEN @
                        ELSE sorted /\ ~IsSorted(us[i].data)]
    /\ last' = [op |-> "Unsorted.cardinality", slot |-> i, ret |-> r.ret]
    /\ UNCHANGED <<usHist, mmVars, osVars>>

UMode(i) == UQuery(i, "Unsorted.mode", Unsorted_mode(us[i]))
UModes(i) == UQuery(i, "Unsorted.modes", Unsorted_modes(us[i]))
UAntimodes(i) == UQuery(i, "Unsorted.antimodes", Unsorted_antimodes(us[i]))
UMedian(i) == UQuery(i, "Unsorted.median", Unsorted_median(us[i]))
UQuartiles(i) == UQuery(i, "Unsorted.quartiles", Unsorted_quartiles(us[i]))

\* mad(existing_median); the caller's existing_median is recorded with the call.
\* A call that panics unwinds its thread: it returns nothing and no step of
\* the program follows from it.
UMad(i, existing_median) ==
    LET r == Unsorted_mad(us[i], existing_median) IN
    /\ r.ret # Panic
    /\ us' = [us EXCEPT ![i] = r.self]
    /\ usAssumed' = [usAssumed EXCEPT ![i] =
                        IF us[i].sorted \/ is_some(existing_median) THEN @ ELSE FALSE]
    /\ last' = [op |-> "Unsorted.mad", slot |-> i, ret |-> r.ret,
                existing_median |-> existing_median]
    /\ UNCHANGED <<usHist, mmVars, osVars>>

\* the existing_median a caller passes: none, the median it got from
\* median(), or a NaN it computed elsewhere
MadArgs(self) == {None, Unsorted_median(self).ret, Some(NaN)}

Thresholds == {0, 1, 2, 3}

\* the queries, on the slots S, with assume-sorted arguments from B and
\* parallel thresholds from T
Queries(S, B, T) ==
    \/ \E i \in S, sorted \in B, t \in T : UCardinality(i, sorted, t)
    \/ \E i \in S : UMode(i)
    \/ \E i \in S : UModes(i)
    \/ \E i \in S : UAntimodes(i)
    \/ \E i \in S : UMedian(i)
    \/ \E i \in S : UQuartiles(i)

\* the statistics of one collected buffer, through the queries that sort
NextQ == Queries({"a"}, {FALSE}, Thresholds)

\* the median absolute deviation of one collected buffer, with and without
\* the median the caller got from median()
NextD ==
    \/ UMedian("a")
    \/ \E m \in MadArgs(us["a"]) : UMad("a", m)

\* the quartiles and the median of one collected buffer
NextR ==
    \/ UQuartiles("a")
    \/ UMedian("a")

\* the frequency lists of one collected wide buffer
NextA ==
    \/ UAntimodes("a")
    \/ UModes("a")

\* cardinality, after the early returns and the sort, chooses its pass
UUseParallel ==
    /\ last.op = "Unsorted.cardinality.call"
    /\ last' = [op |-> "Unsorted.cardinality.use_parallel", len |-> last.len,
                parallel_threshold |-> last.parallel_threshold,
                ret |-> use_parallel(last.len, last.parallel_threshold)]
    /\ UNCHANGED <<mmVars, osVars, usVars>>

NextP == UUseParallel

NextU ==
    \/ \E i \in USlots, v \in USamples : UAdd(i, v)
    \/ \E i \in USlots, it \in UIters : UExtend(i, it)
    \/ \E i \in USlots, j \in USlots : UMerge(i, j)
    \/ Queries(USlots, BOOLEAN, {0})

\* every operation of Unsorted, mad included, on at most MaxFLen samples
FitsF == SumLen(usHist', USlots) <= MaxFLen

NextF ==
    \/ \E i \in USlots, v \in USamples : UAdd(i, v) /\ FitsF
    \/ \E i \in USlots, it \in UIters : UExtend(i, it) /\ FitsF
    \/ \E i \in USlots, j \in USlots : UMerge(i, j)
    \/ Queries(USlots, BOOLEAN, {0, 1})
    \/ \E i \in USlots : \E m \in MadArgs(us[i]) : UMad(i, m)

----------------------------------------------------------------------------
InitMM ==
    /\ mm = [i \in MMSlots |-> MinMax_new]
    /\ mmHist = [i \in MMSlots |-> << >>]

InitOS ==
    /\ os = [i \in OSSlots |-> OnlineStats_new]
    /\ osHist = [i \in OSSlots |-> << >>]
    /\ osKind = [i \in OSSlots |-> "add"]

InitU ==
    /\ us = [i \in USlots |-> Unsorted_new]
    /\ usHist = [i \in USlots |-> << >>]
    /\ usAssumed = [i \in USlots |-> FALSE]

\* slot "a" holds a buffer collected from an iterator, not queried yet
InitQ ==
    /\ InitMM
    /\ InitOS
    /\ \E input \in SeqsUpTo(1..MaxQVal, MaxQLen) :
          /\ us = [i \in USlots |-> IF i = "a" THEN Unsorted_from_iter(input)
                                    ELSE Unsorted_new]
          /\ usHist = [i \in USlots |-> IF i = "a" THEN input ELSE << >>]
    /\ usAssumed = [i \in USlots |-> FALSE]
    /\ last = [op |-> "Unsorted.from_iter", slot |-> "a"]

\* the non-decreasing sequences over S of at most n samples
RECURSIVE RisingSeqs(_, _)
RisingSeqs(S, n) ==
    IF n = 0 THEN {<< >>}
    ELSE LET shorter == RisingSeqs(S, n - 1)
             longest == {u \in shorter : Len(u) = n - 1}
         IN  shorter \cup
             {Append(p[1], p[2]) :
                 p \in {q \in longest \X S :
                           q[1] = << >> \/ q[2] >= q[1][Len(q[1])]}}

Reversed(s) == [k \in 1..Len(s) |-> s[Len(s) + 1 - k]]

\* the upper half of s followed by its lower half
Rotated(s) == SubSeq(s, Len(s) \div 2 + 1, Len(s)) \o SubSeq(s, 1, Len(s) \div 2)

\* every second sample of s, then the others in reverse
Shuffled(s) ==
    LET odd == {k \in 1..Len(s) : k % 2 = 1}
        even == {k \in 1..Len(s) : k % 2 = 0}
    IN  [k \in 1..Cardinality(odd) |-> s[2 * k - 1]]
        \o Reversed([k \in 1..Cardinality(even) |-> s[2 * k]])

\* the sample sequences quartiles() is taken on: every sequence of up to
\* MaxQLen samples, and the buffers of up to MaxRLen samples whose samples
\* arrive in ascending order, in descending order, upper half first, or
\* interleaved
QuartileInputs ==
    SeqsUpTo(1..MaxQVal, MaxQLen)
    \cup UNION {{o, Reversed(o), Rotated(o), Shuffled(o)} :
                   o \in RisingSeqs(1..MaxRVal, MaxRLen)}

\* slot "a" holds a buffer of QuartileInputs collected from an iterator, not
\* queried yet
InitR ==
    /\ InitMM
    /\ InitOS
    /\ \E input \in QuartileInputs :
          /\ us = [i \in USlots |-> IF i = "a" THEN Unsorted_from_iter(input)
                                    ELSE Unsorted_new]
          /\ usHist = [i \in USlots |-> IF i = "a" THEN input ELSE << >>]
    /\ usAssumed = [i \in USlots |-> FALSE]
    /\ last = [op |-> "Unsorted.from_iter", slot |-> "a"]

\* the elements of a finite set of integers, ascending and descending
RECURSIVE Rising(_)
Rising(S) ==
    IF S = {} THEN << >>
    ELSE LET m == CHOOSE x \in S : \A y \in S : x <= y
         IN  <<m>> \o Rising(S \ {m})

RECURSIVE Falling(_)
Falling(S) ==
    IF S = {} THEN << >>
    ELSE LET m == CHOOSE x \in S : \A y \in S : x >= y
         IN  <<m>> \o Falling(S \ {m})

\* the sample sequences of the wide buffers: the values of a set S, rising or
\* falling, once or twice over, followed by one more sample d (d = 0: no
\* such sample).  S has nearly all of the MaxAVal values, or at most
\* two of them.
WideInputs ==
    {(IF twice THEN o \o o ELSE o) \o (IF d = 0 THEN << >> ELSE <<d>>) :
        o \in UNION {{Rising(S), Falling(S)} :
                        S \in {T \in SUBSET (1..MaxAVal) :
                                 \/ Cardinality(T) >= MaxAVal - 2
                                 \/ Cardinality(T) <= 2}},
        twice \in BOOLEAN,
        d \in 0..MaxAVal}

\* slot "a" holds a wide buffer collected from an iterator, not queried yet
InitA ==
    /\ InitMM
    /\ InitOS
    /\ \E input \in WideInputs :
          /\ us = [i \in USlots |-> IF i = "a" THEN Unsorted_from_iter(input)
                                    ELSE Unsorted_new]
          /\ usHist = [i \in USlots |-> IF i = "a" THEN input ELSE << >>]
    /\ usAssumed = [i \in USlots |-> FALSE]
    /\ last = [op |-> "Unsorted.from_iter", slot |-> "a"]

\* the buffer lengths and thresholds cardinality's choice of pass is taken
\* on: small ones, and ones around the default threshold
PLens ==
    (2..MaxPLen) \cup {DEFAULT_PARALLEL_THRESHOLD + d : d \in (0 - MaxPLen)..MaxPLen}

PThresholds ==
    (0..MaxPThr) \cup {DEFAULT_PARALLEL_THRESHOLD + d : d \in (0 - MaxPThr)..MaxPThr}

\* cardinality is about to be called with parallel_threshold on a buffer of
\* len samples
InitP ==
    /\ InitMM
    /\ InitOS
    /\ InitU
    /\ \E len \in PLens, t \in PThresholds :
          last = [op |-> "Unsorted.cardinality.call", len |-> len,
                  parallel_threshold |-> t]

Init ==
    /\ InitMM
    /\ InitOS
    /\ InitU
    /\ last = [op |-> "new"]

SpecMM == Init /\ [][NextMM]_vars

SpecOS == Init /\ [][NextOS]_vars

SpecU == Init /\ [][NextU]_vars

SpecA == InitA /\ [][NextA]_vars

SpecF == Init /\ [][NextF]_vars

SpecQ == InitQ /\ [][NextQ]_vars

SpecD == InitQ /\ [][NextD]_vars

SpecR == InitR /\ [][NextR]_vars

SpecP == InitP /\ [][NextP]_vars

----------------------------------------------------------------------------
(* Properties of MinMax                                                    *)

SeqSet(s) == {s[k] : k \in 1..Len(s)}

\* C1: for all sample sequences A and B (either may be empty), adding A and
\* then merging in the MinMax built from B gives the len, min and max of the
\* MinMax built by adding every element of A ++ B.  Stated for every slot:
\* whatever adds, extends and merges built it, it equals the single pass over its
\* history, and the history of a merge result is A ++ B.
C1_MergeIsSinglePass ==
    \A i \in MMSlots :
        /\ MinMax_len(mm[i]) = MinMax_len(MinMax_from_iter(mmHist[i]))
        /\ MinMax_min(mm[i]) = MinMax_min(MinMax_from_iter(mmHist[i]))
        /\ MinMax_max(mm[i]) = MinMax_max(MinMax_from_iter(mmHist[i]))

\* a merge of two non-empty aggregates, the merged-in one holding both the
\* new minimum and the new maximum
C1_Witness ==
    /\ last.op = "MinMax.merge"
    /\ last.a # << >>
    /\ last.b # << >>
    /\ mmHist[last.slot] = last.a \o last.b
    /\ \A k \in 1..Len(last.a) : mm[last.slot].min[1] < last.a[k]
    /\ \E k \in 1..Len(last.b) : \A l \in 1..Len(last.a) : last.b[k] > last.a[l]

\* C8: merge on MinMax is commutative and associative in len, min and max,
\* for all aggregates x, y, z the operations can build.
C8_MergeCommutesAssociates ==
    \A x \in MMSlots, y \in MMSlots, z \in MMSlots :
        /\ MinMax_merge(mm[x], mm[y]) = MinMax_merge(mm[y], mm[x])
        /\ MinMax_merge(MinMax_merge(mm[x], mm[y]), mm[z])
             = MinMax_merge(mm[x], MinMax_merge(mm[y], mm[z]))

\* three non-empty aggregates with pairwise different minima and maxima, the
\* middle operand holding the smallest minimum and the last the greatest maximum
C8_Witness ==
    /\ \A i \in MMSlots : mm[i].len > 0
    /\ mm["y"].min[1] < mm["x"].min[1]
    /\ mm["x"].min[1] < mm["z"].min[1]
    /\ mm["z"].max[1] > mm["x"].max[1]
    /\ mm["x"].max[1] > mm["y"].max[1]
    /\ MinMax_merge(mm["x"], mm["y"]) # mm["x"]
    /\ MinMax_merge(mm["x"], mm["y"]) # mm["y"]

\* C9: in every reachable MinMax state min is present iff max is present iff
\* len > 0, min <= max when both are present, and min and max are the least
\* and the greatest of all samples added to the aggregate or to an aggregate
\* merged into it.
C9_MinMaxInvariant ==
    \A i \in MMSlots :
        /\ is_some(MinMax_min(mm[i])) <=> is_some(MinMax_max(mm[i]))
        /\ is_some(MinMax_min(mm[i])) <=> MinMax_len(mm[i]) > 0
        /\ MinMax_len(mm[i]) = Len(mmHist[i])
        /\ MinMax_len(mm[i]) > 0 =>
             /\ mm[i].min[1] <= mm[i].max[1]
             /\ mm[i].min[1] \in SeqSet(mmHist[i])
             /\ mm[i].max[1] \in SeqSet(mmHist[i])
             /\ \A s \in SeqSet(mmHist[i]) : mm[i].min[1] <= s /\ s <= mm[i].max[1]

\* an aggregate that received samples by add and by merge, with min < max, the
\* minimum coming from the merged-in aggregate, and was added to after the merge
C9_Witness ==
    \E i \in MMSlots :
        /\ last.op = "MinMax.add"
        /\ last.slot = i
        /\ Len(mmHist[i]) >= 3
        /\ mm[i].min[1] < mm[i].max[1]
        /\ mm[i].max[1] = mmHist[i][Len(mmHist[i])]
        /\ mm[i].min[1] # mmHist[i][1]

----------------------------------------------------------------------------
(* Properties of OnlineStats                                               *)

OSReport3(self) ==
    <<OnlineStats_len(self), OnlineStats_mean(self), OnlineStats_variance(self)>>

OSReport5(self) ==
    <<OnlineStats_len(self), OnlineStats_mean(self), OnlineStats_variance(self),
      OnlineStats_harmonic_mean(self), OnlineStats_geometric_mean(self)>>

\* C2: an OnlineStats built from partitions, each by add / add_null, merged
\* left to right (two partitions A and B, or any number of them) reports the
\* len, mean and variance of the OnlineStats built from their concatenation
\* in a single pass (exact arithmetic).
C2_MergeIsSinglePass ==
    \A i \in OSSlots :
        osKind[i] \in {"add", "merge"} =>
            OSReport3(os[i]) = OSReport3(OnlineStats_from_iter(osHist[i]))

\* C5: whenever the aggregate is non-empty and a zero-valued sample reached it
\* (by add, by add_null or inside a merged aggregate), harmonic_mean() is NaN
\* and geometric_mean() is 0.
C5_ZeroGatesMeans ==
    \A i \in OSSlots :
        (OnlineStats_len(os[i]) > 0 /\ 0 \in SeqSet(osHist[i])) =>
            /\ is_nan(OnlineStats_harmonic_mean(os[i]))
            /\ OnlineStats_geometric_mean(os[i]) = Fin(0)

\* C6: the empty OnlineStats is the identity of merge: for every reachable x
\* (the empty one included) merging an empty aggregate into x and merging x
\* into an empty aggregate both give a state whose fields equal those of x.
C6_EmptyIsIdentity ==
    \A i \in OSSlots :
        /\ OnlineStats_merge(os[i], OnlineStats_new) = os[i]
        /\ OnlineStats_merge(OnlineStats_new, os[i]) = os[i]

\* C7: merge on OnlineStats is commutative: for all x and y built by add and
\* add_null, merge(x, y) and merge(y, x) report the same len, mean, variance,
\* harmonic_mean and geometric_mean (exact arithmetic).
C7_MergeCommutes ==
    \A i \in OSSlots, j \in OSSlots :
        (osKind[i] = "add" /\ osKind[j] = "add") =>
            OSReport5(OnlineStats_merge(os[i], os[j]))
              = OSReport5(OnlineStats_merge(os[j], os[i]))

----------------------------------------------------------------------------
(* Properties of Unsorted                                                  *)

\* the number of occurrences of v in h
Occ(h, v) == Cardinality({k \in 1..Len(h) : h[k] = v})

\* the elements of a set of integers in ascending order
RECURSIVE Ascending(_)
Ascending(S) ==
    IF S = {} THEN << >>
    ELSE LET m == CHOOSE x \in S : \A y \in S : x <= y
         IN  <<m>> \o Ascending(S \ {m})

MaxOcc(h) == CHOOSE c \in 0..Len(h) :
                /\ \A v \in SeqSet(h) : Occ(h, v) <= c
                /\ (h # << >> => \E v \in SeqSet(h) : Occ(h, v) = c)

MinOcc(h) == CHOOSE c \in 0..Len(h) :
                /\ \A v \in SeqSet(h) : Occ(h, v) >= c
                /\ (h # << >> => \E v \in SeqSet(h) : Occ(h, v) = c)

\* what the queries named in C3 return on an aggregate
QueryRets(self) ==
    [cardinality |-> [t \in Thresholds |-> Unsorted_cardinality(self, FALSE, t).ret],
     median |-> Unsorted_median(self).ret,
     quartiles |-> Unsorted_quartiles(self).ret,
     mode |-> Unsorted_mode(self).ret,
     modes |-> Unsorted_modes(self).ret]

\* C3: the Unsorted built from A merged with the Unsorted built from B returns
\* the cardinality, median, quartiles, mode and modes of the Unsorted built
\* from A ++ B, also when either had been queried (so sorted in place) before
\* the merge.  Stated for every slot whose sorted flag is not an unchecked
\* assertion of a cardinality(true, _) caller: its queries return what they
\* return on the buffer collected from its history, which for a merge result
\* is A ++ B; and so did the query that ran last.
C3_MergeIsSinglePass ==
    /\ \A i \in USlots :
         ~usAssumed[i] => QueryRets(us[i]) = QueryRets(Unsorted_from_iter(usHist[i]))
    /\ (last.op \in {"Unsorted.median", "Unsorted.quartiles", "Unsorted.mode",
                     "Unsorted.modes", "Unsorted.cardinality"}
        /\ ~usAssumed[last.slot]) =>
         LET ref == QueryRets(Unsorted_from_iter(usHist[last.slot]))
         IN  last.ret = CASE last.op = "Unsorted.median" -> ref.median
                          [] last.op = "Unsorted.quartiles" -> ref.quartiles
                          [] last.op = "Unsorted.mode" -> ref.mode
                          [] last.op = "Unsorted.modes" -> ref.modes
                          [] last.op = "Unsorted.cardinality" -> ref.cardinality[0]

\* a merge of two non-empty buffers, both sorted in place by earlier queries,
\* whose concatenation is out of order
C3_Witness ==
    /\ last.op = "Unsorted.merge"
    /\ Len(last.a.data) >= 2 /\ last.a.sorted /\ IsSorted(last.a.data)
    /\ Len(last.b.data) >= 2 /\ last.b.sorted /\ IsSorted(last.b.data)
    /\ us[last.slot].data = last.a.data \o last.b.data
    /\ ~IsSorted(us[last.slot].data)
    /\ usHist[last.slot] # us[last.slot].data

\* C4: mode() returns Some(v) exactly when v is the only distinct value whose
\* number of occurrences is the greatest in the buffer and that number is at
\* least 2; otherwise (empty buffer, no repeated value, or two or more values
\* tied at the greatest frequency) it returns None.
C4_ModeIsUniqueMostFrequent ==
    last.op = "Unsorted.mode" =>
        LET h == usHist[last.slot]
            top == {v \in SeqSet(h) : Occ(h, v) = MaxOcc(h)}
        IN  last.ret = IF MaxOcc(h) >= 2 /\ Cardinality(top) = 1
                       THEN Some(CHOOSE v \in top : TRUE)
                       ELSE None

\* C10 as claimed: for every non-empty buffer antimodes() returns the distinct
\* values with the smallest number of occurrences, ascending, with occurrence
\* that smallest number (so all-distinct buffers of any length >= 1 give every
\* value with occurrence 1); only the empty buffer yields ([], 0, 0).
C10_AntimodesAsClaimed ==
    last.op = "Unsorted.antimodes" =>
        LET h == usHist[last.slot]
            low == {v \in SeqSet(h) : Occ(h, v) = MinOcc(h)}
        IN  /\ h # << >> => (last.ret[1] = Ascending(low) /\ last.ret[3] = MinOcc(h))
            /\ last.ret = <<<< >>, 0, 0>> => h = << >>

\* C10 amended: for every buffer holding at least two distinct values
\* antimodes() returns the distinct values with the smallest number of
\* occurrences, ascending (the first 10 of them when more qualify), the number
\* of all such values as count, and that smallest number (>= 1) as occurrence;
\* the empty buffer and every buffer holding one distinct value yield ([], 0, 0).
C10_Antimodes ==
    last.op = "Unsorted.antimodes" =>
        LET h == usHist[last.slot]
            low == {v \in SeqSet(h) : Occ(h, v) = MinOcc(h)}
        IN  IF Cardinality(SeqSet(h)) >= 2
            THEN /\ MinOcc(h) >= 1
                 /\ last.ret = <<Take(Ascending(low), 10), Cardinality(low), MinOcc(h)>>
            ELSE last.ret = <<<< >>, 0, 0>>

\* antimodes() on a buffer collected out of order, with values of different
\* frequencies, the rarest being the last run of the sorted buffer
C10_Witness ==
    /\ last.op = "Unsorted.antimodes"
    /\ ~IsSorted(usHist[last.slot])
    /\ Cardinality(SeqSet(usHist[last.slot])) = 3
    /\ last.ret[3] = 1
    /\ last.ret[2] = 1
    /\ last.ret[1] = <<MaxQVal>>

\* the k-th smallest sample of h, k in 1..Len(h)
Kth(h, k) ==
    CHOOSE v \in SeqSet(h) :
        /\ Cardinality({n \in 1..Len(h) : h[n] < v}) < k
        /\ Cardinality({n \in 1..Len(h) : h[n] <= v}) >= k

\* the samples of h in ascending order
Ordered(h) == [k \in 1..Len(h) |-> Kth(h, k)]

\* the middle of an ordered, non-empty sequence
Middle(s) ==
    LET n == Len(s) IN
    IF n % 2 = 1 THEN Fin(s[(n + 1) \div 2])
    ELSE Avg(Fin(s[n \div 2]), Fin(s[n \div 2 + 1]))

\* C12: modes() returns ([], 0, 0) when the buffer is empty or no value
\* occurs more than once; otherwise every distinct value with the greatest
\* number of occurrences, ascending and untruncated, with count the length of
\* that list and occurrence that greatest number.
C12_Modes ==
    last.op = "Unsorted.modes" =>
        LET h == usHist[last.slot]
            top == {v \in SeqSet(h) : Occ(h, v) = MaxOcc(h)}
        IN  last.ret = IF MaxOcc(h) <= 1 THEN <<<< >>, 0, 0>>
                       ELSE <<Ascending(top), Cardinality(top), MaxOcc(h)>>

\* modes() on a buffer collected out of order in which two values tie at the
\* greatest frequency and a third is rarer
C12_Witness ==
    /\ last.op = "Unsorted.modes"
    /\ ~IsSorted(usHist[last.slot])
    /\ Cardinality(SeqSet(usHist[last.slot])) = 3
    /\ last.ret[2] = 2
    /\ last.ret[3] = 2
    /\ Len(last.ret[1]) = 2

\* C13: quartiles() returns none exactly when the buffer holds fewer than 3
\* samples; otherwise (Q1, Q2, Q3) with Q2 the value median() returns, Q1 the
\* median of the ordered samples below the middle position and Q3 the median
\* of those above it (the middle sample in neither half when the length is
\* odd), and Q1 <= Q2 <= Q3.
C13_Quartiles ==
    last.op = "Unsorted.quartiles" =>
        LET h == usHist[last.slot]
            n == Len(h)
            s == Ordered(h)
            half == n \div 2
        IN  IF n < 3 THEN last.ret = None
            ELSE /\ last.ret = Some(<<Middle(SubSeq(s, 1, half)),
                                      Middle(s),
                                      Middle(SubSeq(s, n - half + 1, n))>>)
                 /\ last.ret[1][2] = Unsorted_median(us[last.slot]).ret[1]
                 /\ ~FLt(last.ret[1][2], last.ret[1][1])
                 /\ ~FLt(last.ret[1][3], last.ret[1][2])

\* quartiles() on a buffer of 11 samples (4k + 3 with k = 2) collected out
\* of order, sorted by the call, whose three quartiles differ
C13_Witness ==
    /\ last.op = "Unsorted.quartiles"
    /\ Len(usHist[last.slot]) = 11
    /\ ~IsSorted(usHist[last.slot])
    /\ IsSorted(us[last.slot].data)
    /\ last.ret # None
    /\ FLt(last.ret[1][1], last.ret[1][2])
    /\ FLt(last.ret[1][2], last.ret[1][3])

\* C14: median() returns none for an empty buffer and otherwise, whatever the
\* insertion order, the middle element of the ascending order of the samples
\* when their number is odd and the average of the two middle elements when
\* it is even.
C14_Median ==
    last.op = "Unsorted.median" =>
        LET h == usHist[last.slot]
        IN  last.ret = IF h = << >> THEN None ELSE Some(Middle(Ordered(h)))

\* median() on an even number of samples collected out of order whose two
\* middle elements differ by an odd amount
C14_Witness ==
    /\ last.op = "Unsorted.median"
    /\ Len(usHist[last.slot]) = 4
    /\ ~IsSorted(usHist[last.slot])
    /\ last.ret # None
    /\ last.ret[1][2] = 2

\* C16: cardinality(false, t) returns the number of distinct values of the
\* buffer for every parallel_threshold t and every length: 0 and 1 for the
\* lengths 0 and 1, and on a sorted buffer of two or more samples the parallel
\* window count and the sequential pass agree.
C16_CardinalityAnyThreshold ==
    /\ \A i \in USlots :
          LET distinct == Cardinality(SeqSet(usHist[i]))
              s == Unsorted_sort(Unsorted_from_iter(usHist[i]))
          IN  /\ \A t \in Thresholds :
                    Unsorted_cardinality(Unsorted_from_iter(usHist[i]), FALSE, t).ret
                      = distinct
              /\ Len(s.data) >= 2 =>
                    /\ cardinality_parallel(s.data) = distinct
                    /\ cardinality_sequential(s.data) = distinct
    /\ last.op = "Unsorted.cardinality" =>
          last.ret = Cardinality(SeqSet(usHist[last.slot]))

\* cardinality(false, _) on a buffer collected out of order that holds
\* repeated values, and on which the forced-parallel threshold counts by
\* windows
C16_Witness ==
    /\ last.op = "Unsorted.cardinality"
    /\ ~IsSorted(usHist[last.slot])
    /\ Len(usHist[last.slot]) = 5
    /\ last.ret = 2
    /\ Unsorted_cardinality(us[last.slot], FALSE, 1).ret = 2

\* C11 as claimed: antimodes() returns at most 10 values, the 10 smallest
\* qualifying values in ascending order when more than 10 distinct values
\* attain the minimum frequency, and the returned count is always the full
\* number of distinct values attaining the minimum frequency.
C11_TruncationAsClaimed ==
    last.op = "Unsorted.antimodes" =>
        LET h == usHist[last.slot]
            low == {v \in SeqSet(h) : Occ(h, v) = MinOcc(h)}
        IN  /\ Len(last.ret[1]) <= 10
            /\ Cardinality(low) > 10 => last.ret[1] = Take(Ascending(low), 10)
            /\ last.ret[2] = Cardinality(low)

\* C11 amended: antimodes() returns at most 10 values, the 10 smallest
\* qualifying values ascending when more than 10 distinct values attain the
\* minimum frequency; the returned count is the full number of distinct values
\* attaining the minimum frequency when the buffer holds two or more distinct
\* values, and 0 when it holds one distinct value or none.
C11_Truncation ==
    last.op = "Unsorted.antimodes" =>
        LET h == usHist[last.slot]
            low == {v \in SeqSet(h) : Occ(h, v) = MinOcc(h)}
        IN  /\ Len(last.ret[1]) <= 10
            /\ Cardinality(low) > 10 => last.ret[1] = Take(Ascending(low), 10)
            /\ last.ret[2] = IF Cardinality(SeqSet(h)) >= 2 THEN Cardinality(low) ELSE 0

\* antimodes() on a buffer collected in falling order in which more than 10
\* distinct values attain the minimum frequency: 10 values are returned, the
\* count is larger
C11_Witness ==
    /\ last.op = "Unsorted.antimodes"
    /\ ~IsSorted(usHist[last.slot])
    /\ Len(last.ret[1]) = 10
    /\ last.ret[2] > 10
    /\ last.ret[1][1] < last.ret[1][10]

\* the k-th smallest of a sequence of f64 values
KthF64(d, k) ==
    CHOOSE v \in SeqSet(d) :
        /\ Cardinality({n \in 1..Len(d) : FLt(d[n], v)}) < k
        /\ Cardinality({n \in 1..Len(d) : ~FLt(v, d[n])}) >= k

\* the median of the values |m - x| over the samples x of h, m their median
RefMad(h) ==
    LET m == Middle(Ordered(h))
        dev == [k \in 1..Len(h) |-> FAbs(FSub(m, Fin(h[k])))]
        n == Len(h)
    IN  IF n % 2 = 1 THEN KthF64(dev, (n + 1) \div 2)
        ELSE Avg(KthF64(dev, n \div 2), KthF64(dev, n \div 2 + 1))

\* C15: mad(None) returns none for an empty buffer and otherwise the median
\* of |m - x| over all samples x, m the buffer's median; mad(Some(m)) with m
\* the buffer's median returns what mad(None) returns, whether or not the
\* buffer is sorted, and leaves the buffer's order and sorted flag unchanged.
C15_Mad ==
    /\ \A i \in USlots :
          LET h == usHist[i]
              none == Unsorted_mad(us[i], None)
          IN  /\ none.ret = IF h = << >> THEN None ELSE Some(RefMad(h))
              /\ h # << >> =>
                    LET some == Unsorted_mad(us[i], Some(Middle(Ordered(h))))
                    IN  some.ret = none.ret /\ some.self = us[i]
    /\ (last.op = "Unsorted.mad" /\ last.existing_median # Some(NaN)) =>
          last.ret = IF usHist[last.slot] = << >> THEN None
                     ELSE Some(RefMad(usHist[last.slot]))

\* mad(Some(median)) on a buffer of 4 samples, still out of order and with
\* the sorted flag false after the call, whose deviations from the median are
\* fractional and not all equal
C15_Witness ==
    /\ last.op = "Unsorted.mad"
    /\ is_some(last.existing_median)
    /\ Len(usHist[last.slot]) = 4
    /\ ~us[last.slot].sorted
    /\ ~IsSorted(us[last.slot].data)
    /\ last.existing_median[1][2] = 2
    /\ last.ret # None
    /\ last.ret[1] # Fin(0)
    /\ last.ret[1] = Unsorted_mad(us[last.slot], None).ret[1]

\* the sum of a sequence of integers
RECURSIVE SumSeq(_)
SumSeq(h) == IF h = << >> THEN 0 ELSE Head(h) + SumSeq(Tail(h))

\* the sum of (x - m)^2 over the samples x of h, m a rational
RECURSIVE SumSqDev(_, _)
SumSqDev(h, m) ==
    IF h = << >> THEN Fin(0)
    ELSE FAdd(FMul(FSub(Fin(Head(h)), m), FSub(Fin(Head(h)), m)), SumSqDev(Tail(h), m))

\* C17: after any sequence of add calls on a new OnlineStats, with n >= 1
\* samples, the running mean is their sum / n and q is the sum of their
\* squared deviations from that mean, so variance() is the population
\* variance and is >= 0; add_null() has exactly the effect of add(0).
C17_WelfordIsExact ==
    \A i \in OSSlots :
        /\ (osKind[i] = "add" /\ Len(osHist[i]) >= 1) =>
              LET h == osHist[i]
                  n == Len(h)
                  m == Norm(SumSeq(h), n)
              IN  /\ os[i].size = n
                  /\ os[i].mean = m
                  /\ os[i].q = SumSqDev(h, m)
                  /\ OnlineStats_variance(os[i]) = FDiv(SumSqDev(h, m), Fin(n))
                  /\ ~is_nan(OnlineStats_variance(os[i]))
                  /\ ~FLt(OnlineStats_variance(os[i]), Fin(0))
        /\ OnlineStats_add_null(os[i]) = OnlineStats_add(os[i], 0)
        /\ osKind[i] = "add" => os[i] = OnlineStats_from_iter(osHist[i])

\* an aggregate built by add and add_null alone from samples of both signs
\* and a null, whose mean is fractional and whose variance is positive
C17_Witness ==
    /\ last.op = "OnlineStats.add_null"
    /\ osKind[last.slot] = "add"
    /\ Len(osHist[last.slot]) = 3
    /\ (0 - 1) \in SeqSet(osHist[last.slot])
    /\ MaxOSVal \in SeqSet(osHist[last.slot])
    /\ os[last.slot].mean[2] = 3
    /\ FLt(Fin(0), OnlineStats_variance(os[last.slot]))

\* C20: OnlineStats::merge combines both flags by logical OR: after
\* self.merge(other) has_negative is true iff it was in self or in other, and
\* has_zero is true iff it was in self or in other; harmonic_sum and the
\* geometric log-sum are the sums of the operands' values.
C20_MergeOrsFlags ==
    \A i \in OSSlots, j \in OSSlots :
        LET merged == OnlineStats_merge(os[i], os[j])
        IN  /\ merged.has_negative = (os[i].has_negative \/ os[j].has_negative)
            /\ merged.has_zero = (os[i].has_zero \/ os[j].has_zero)
            /\ merged.harmonic_sum = FAdd(os[i].harmonic_sum, os[j].harmonic_sum)
            /\ merged.geometric_sum = LogAdd(os[i].geometric_sum, os[j].geometric_sum)

\* C18 as claimed: in every state reachable by add, extend, merge and the
\* queries, cardinality with either value of assume_sorted included, a true
\* sorted flag means the buffer is in non-decreasing order.
C18_FlagMeansOrderedAsClaimed ==
    \A i \in USlots : us[i].sorted => IsSorted(us[i].data)

\* C18 amended: a true sorted flag means the buffer is in non-decreasing
\* order, unless the flag was set by cardinality(true, _) on a buffer that was
\* out of order and no add, extend or merge has cleared it since.
C18_FlagMeansOrdered ==
    \A i \in USlots : (us[i].sorted /\ ~usAssumed[i]) => IsSorted(us[i].data)

\* a query has sorted in place a buffer of 3 samples that was collected out
\* of order, part of it by a merge
C18_Witness ==
    /\ last.op \in {"Unsorted.median", "Unsorted.mad", "Unsorted.cardinality"}
    /\ us[last.slot].sorted
    /\ ~usAssumed[last.slot]
    /\ Len(usHist[last.slot]) >= 3
    /\ ~IsSorted(usHist[last.slot])
    /\ us[last.slot].data # usHist[last.slot]

\* the operations that need the buffer in order
OrderQueries ==
    {"Unsorted.median", "Unsorted.quartiles", "Unsorted.mode", "Unsorted.modes",
     "Unsorted.antimodes", "Unsorted.cardinality"}

\* C19: every add, extend and merge leaves the sorted flag false (also when
\* the extend or merge contributes no samples); every order-requiring query
\* on a buffer of two or more samples (median, quartiles, mode, modes,
\* antimodes, mad(None), cardinality(false, _)) leaves it true; a new Unsorted
\* starts with the flag true.
C19_FlagTransitions ==
    /\ Unsorted_new.sorted
    /\ last.op \in {"Unsorted.add", "Unsorted.extend", "Unsorted.merge"} =>
          ~us[last.slot].sorted
    /\ (last.op \in OrderQueries /\ Len(us[last.slot].data) >= 2) =>
          us[last.slot].sorted
    /\ (last.op = "Unsorted.mad" /\ is_none(last.existing_median)
          /\ Len(us[last.slot].data) >= 2) =>
          us[last.slot].sorted
    /\ \A i \in USlots :
          /\ ~Unsorted_extend(us[i], << >>).sorted
          /\ ~Unsorted_merge(us[i], Unsorted_new).sorted
          /\ Len(us[i].data) >= 2 =>
                /\ Unsorted_median(us[i]).self.sorted
                /\ Unsorted_quartiles(us[i]).self.sorted
                /\ Unsorted_mode(us[i]).self.sorted
                /\ Unsorted_modes(us[i]).self.sorted
                /\ Unsorted_antimodes(us[i]).self.sorted
                /\ Unsorted_mad(us[i], None).self.sorted
                /\ \A t \in Thresholds : Unsorted_cardinality(us[i], FALSE, t).self.sorted

\* an extend on a buffer of 3 samples that a query had sorted: the data is in
\* order, was not collected so, and the flag is false
C19_Witness ==
    /\ last.op = "Unsorted.extend"
    /\ ~us[last.slot].sorted
    /\ Len(us[last.slot].data) = 3
    /\ IsSorted(us[last.slot].data)
    /\ ~IsSorted(usHist[last.slot])

\* C22: when every sample of a non-empty buffer has the same value (one
\* distinct value, a buffer of a single sample included), antimodes() returns
\* ([], 0, 0): an empty list, count 0 and occurrence 0.
C22_AntimodesOfOneValue ==
    /\ \A i \in USlots :
          (usHist[i] # << >> /\ Cardinality(SeqSet(usHist[i])) = 1) =>
              Unsorted_antimodes(us[i]).ret = <<<< >>, 0, 0>>
    /\ (last.op = "Unsorted.antimodes"
          /\ usHist[last.slot] # << >>
          /\ Cardinality(SeqSet(usHist[last.slot])) = 1) =>
          last.ret = <<<< >>, 0, 0>>

\* antimodes() has run on a buffer holding 4 samples of one value
C22_Witness ==
    /\ last.op = "Unsorted.antimodes"
    /\ Len(usHist[last.slot]) = 4
    /\ Cardinality(SeqSet(usHist[last.slot])) = 1
    /\ last.ret = <<<< >>, 0, 0>>

\* C21: for every buffer length >= 2 cardinality takes the sequential pass
\* for parallel_threshold 0; for 1 the parallel pass exactly when the length
\* exceeds the default threshold 10,000; for 2 the parallel pass whatever the
\* length; for any other value t the parallel pass exactly when the length
\* exceeds t.
C21_StrategyAsDocumented ==
    last.op = "Unsorted.cardinality.use_parallel" =>
        LET t == last.parallel_threshold
        IN  last.ret = IF t = 0 THEN FALSE
                       ELSE IF t = 1 THEN last.len > 10000
                       ELSE IF t = 2 THEN TRUE
                       ELSE last.len > t

=============================================================================
